---- MODULE Spec2Model ----
(***************************************************************************)
(* Model of src/main.py: the IpaBuilder dump orchestrator.  The primary    *)
(* thread runs main / dump_app / generate_ipa; the instrumentation         *)
(* runtime's thread runs on_message once per message.  Paths and file      *)
(* names are sequences of one-character strings so that find, slicing and  *)
(* basename are computed as Python computes them.                          *)
(***************************************************************************)
EXTENDS Integers, Sequences, FiniteSets, TLC

VARIABLES
    pc,             \* position of the primary thread
    attempt,        \* get_usb_iphone: passes of the range(3) loop completed (0 outside it)
    nUsb,           \* get_usb_iphone: len(usb_devices) while prompting (0 outside it)
    device,         \* number of the device get_usb_iphone returned, until attach (else 0)
    session,        \* dump_app local: "none" | "attached" | "detached"
    detachAttempts, \* number of session.detach() calls
    handlerOn,      \* script.on('message', ...) registered and script posted
    ssh,            \* transport of self.ssh_client: "none" | "active" | "dead"
    finished,       \* self.finished (threading.Event)
    file_dict,      \* self.file_dict, in insertion order: Seq of <<key, value>>
    staged,         \* entries of self.payload_dir: name -> entry
    outputExists,   \* self.output_dir exists
    payloadExists,  \* self.payload_dir exists
    archive,        \* output_dir/<display_name>.ipa: NoArchive or name -> content
    appName,        \* generate_ipa local app_name
    gi,             \* generate_ipa: items of file_dict already iterated
    iterLen,        \* generate_ipa: len(file_dict) when the iteration began
    genError,       \* exception caught at line 251 ("none" if none)
    genCalls,       \* number of generate_ipa calls
    success,        \* dump_app local
    summary,        \* summary printed by dump_app: "none" | "Success" | "Failed"
    exitCode,       \* process exit status, -1 while running
    timedOut,       \* finished.wait returned False
    nMsgs,          \* messages delivered so far
    last,           \* the last on_message invocation: message, channel calls, outcome
    failed,         \* names of artifacts whose transfer raised
    late,           \* a message was handled after the wait had returned
    cred,           \* args.password / args.key_file, until connect_ssh has used them
    connects,       \* number of _create_ssh_connection calls
    ensureCalls,    \* number of _ensure_ssh_connection calls
    ensureAttempts, \* _create_ssh_connection calls made by the last of them
    sel,            \* get_usb_iphone: last enumeration and last answer, until attach
    cause,          \* the lookup that ended dump_app: "none" | "nodevice" | "noapp"
    runs            \* number of dump_app calls on this IpaBuilder

vars == <<pc, attempt, nUsb, device, session, detachAttempts, handlerOn, ssh,
          finished, file_dict, staged, outputExists, payloadExists, archive,
          appName, gi, iterLen, genError, genCalls, success, summary, exitCode,
          timedOut, nMsgs, last, failed, late, cred, connects, ensureCalls,
          ensureAttempts, sel, cause, runs>>

chanVars == <<cred, connects, ensureCalls, ensureAttempts>>
runVars == <<sel, cause, runs>>

----------------------------------------------------------------------------
(* Bounds *)
MaxMsgs == 3
MaxPieces == 3
MaxUsb == 2
MaxEnsure == 3
MaxRouted == 2
MaxStream == 4
MaxRuns == 2

(* range(3) in get_usb_iphone *)
MaxAttempts == 3

----------------------------------------------------------------------------
(* Strings *)
Marker == <<".", "a", "p", "p", "/">>
MarkerSkip == 5
AppKey == <<"a", "p", "p">>
AppSuffix == <<".", "a", "p", "p">>
PayloadName == <<"P", "a", "y", "l", "o", "a", "d">>
Slash == <<"/">>

Min(S) == CHOOSE x \in S : \A y \in S : x <= y
Max(S) == CHOOSE x \in S : \A y \in S : x >= y

\* Python s[k:] for k >= 0
SliceFrom(s, k) == IF k >= Len(s) THEN <<>> ELSE SubSeq(s, k + 1, Len(s))

\* variant: s.rfind(sub), the last occurrence
Find_Last(s, sub) ==
    LET idx == {i \in 0..(Len(s) - Len(sub)) : SubSeq(s, i + 1, i + Len(sub)) = sub}
    IN  IF idx = {} THEN -1 ELSE Max(idx)

\* Python s.find(sub): 0-based index of the first occurrence, -1 if none
Find(s, sub) ==
    LET idx == {i \in 0..(Len(s) - Len(sub)) : SubSeq(s, i + 1, i + Len(sub)) = sub}
    IN  IF idx = {} THEN -1 ELSE Min(idx)

\* Python s.endswith(suf)
EndsWith(s, suf) ==
    /\ Len(s) >= Len(suf)
    /\ SubSeq(s, Len(s) - Len(suf) + 1, Len(s)) = suf

StartsWith(s, pre) ==
    /\ Len(s) >= Len(pre)
    /\ SubSeq(s, 1, Len(pre)) = pre

\* pathlib: trailing slashes are dropped
RECURSIVE StripSlashes(_)
StripSlashes(s) ==
    IF Len(s) > 0 /\ s[Len(s)] = "/" THEN StripSlashes(SubSeq(s, 1, Len(s) - 1)) ELSE s

\* Path(p).name: the final path component
BaseName(p) ==
    LET q == StripSlashes(p)
        sl == {i \in 1..Len(q) : q[i] = "/"}
    IN  IF sl = {} THEN q ELSE SliceFrom(q, Max(sl))

\* lines 212-213: payload['path'][payload['path'].find('.app/') + 5:]
RelPath(path) == SliceFrom(path, Find(path, Marker) + MarkerSkip)

\* variant: file_path.relative_to(self.payload_dir)
ZipName_FromStaging(app, rel) == app \o Slash \o rel

\* line 248: file_path.relative_to(self.payload_dir.parent)
ZipName(app, rel) == PayloadName \o Slash \o app \o Slash \o rel

\* first component of an archive-internal path
TopLevel(name) ==
    LET i == Find(name, Slash) IN IF i = -1 THEN name ELSE SubSeq(name, 1, i)

----------------------------------------------------------------------------
(* self.file_dict: a Python dict, insertion-ordered *)
DictKeys(d) == {d[i][1] : i \in 1..Len(d)}
DictHas(d, k) == k \in DictKeys(d)
DictGet(d, k) == LET i == CHOOSE j \in 1..Len(d) : d[j][1] = k IN d[i][2]
DictSet(d, k, v) ==
    IF DictHas(d, k)
    THEN [i \in 1..Len(d) |-> IF d[i][1] = k THEN <<k, v>> ELSE d[i]]
    ELSE Append(d, <<k, v>>)

----------------------------------------------------------------------------
(* File system *)
EmptyFn == <<>>
NoArchive == [exists |-> FALSE, entries |-> EmptyFn]
Content(src, id, whole) == [src |-> src, id |-> id, whole |-> whole]
NoContent == Content("none", <<>>, FALSE)
FileEntry(c) == [kind |-> "file", content |-> c, files |-> EmptyFn]
DirEntry(fs) == [kind |-> "dir", content |-> NoContent, files |-> fs]

Put(f, k, v) == (k :> v) @@ f
Drop(f, K) == [k \in (DOMAIN f) \ K |-> f[k]]

----------------------------------------------------------------------------
(* Inputs: what the device and the injected script can send *)

\* remote paths of decrypted binaries (payload['dump'])
DumpRemoteA == <<"/", "t", "/", "a">>
DumpRemoteB == <<"/", "t", "/", "b">>
DumpRemotes == {DumpRemoteA, DumpRemoteB}

\* original paths of the binaries (payload['path'])
OrigPathX == <<"/", "F">> \o Marker \o <<"x">>
OrigPathNested == <<"/", "F">> \o Marker \o <<"d">> \o Marker \o <<"y">>
OrigPathNoMarker == <<"/", "F", "a", "p", "p", "/", "x">>
OrigPaths == {OrigPathX, OrigPathNested, OrigPathNoMarker}

\* remote paths of the application bundle (payload['app']); AppRemoteFile is
\* a regular file on the device
AppRemoteDir == <<"/", "F">> \o AppSuffix
AppRemoteFile == <<"/", "G">>
AppRemotes == {AppRemoteDir, AppRemoteFile}
RemoteIsDir(r) == r = AppRemoteDir

\* files of the bundle on the device, relative to the bundle directory
DeviceFiles == {RelPath(OrigPathX), RelPath(OrigPathNested)}
DeviceTree == [f \in DeviceFiles |-> Content("bundle", f, TRUE)]

\* outcomes of one scp.get
Outcomes == {"ok", "fail", "partial"}

Msg(mtype, hasPayload, ptype, keys, dump, path, app) ==
    [mtype |-> mtype, hasPayload |-> hasPayload, ptype |-> ptype, keys |-> keys,
     dump |-> dump, path |-> path, app |-> app]
ErrorMsg == Msg("error", TRUE, "", {"done"}, <<>>, <<>>, <<>>)
EmptyMsg == Msg("send", FALSE, "", {}, <<>>, <<>>, <<>>)
LogMsg == Msg("send", TRUE, "log", {"done"}, <<>>, <<>>, <<>>)
DumpMsg(d, p) == Msg("send", TRUE, "", {"dump", "path"}, d, p, <<>>)
AppMsg(a) == Msg("send", TRUE, "", {"app"}, <<>>, <<>>, a)
DoneMsg == Msg("send", TRUE, "", {"done"}, <<>>, <<>>, <<>>)
NoMsg == Msg("none", FALSE, "", {}, <<>>, <<>>, <<>>)

Messages ==
    {ErrorMsg, EmptyMsg, LogMsg, DoneMsg}
    \cup {DumpMsg(d, p) : d \in DumpRemotes, p \in OrigPaths}
    \cup {AppMsg(a) : a \in AppRemotes}

\* the messages of a longer stream: two artifacts for one original path, one
\* for another, the bundle, a log record and done
StreamMessages ==
    {LogMsg, DoneMsg, AppMsg(AppRemoteDir),
     DumpMsg(DumpRemoteA, OrigPathX), DumpMsg(DumpRemoteB, OrigPathX),
     DumpMsg(DumpRemoteB, OrigPathNested)}

\* paths built from at most n pieces, for the path computation alone
PathPieces == {Marker, AppSuffix, <<"a", "p", "p", "/">>, <<"F">>, <<"/">>}
RECURSIVE PiecePaths(_)
PiecePaths(n) ==
    IF n = 0 THEN {<<>>}
    ELSE LET prev == PiecePaths(n - 1)
         IN  prev \cup {p \o q : p \in prev, q \in PathPieces}
PathMessages == {DumpMsg(DumpRemoteA, p) : p \in PiecePaths(MaxPieces)}

\* every shape of message: error report or send, with or without a payload,
\* log record or not, and any combination of the keys dump, app and done
KeySets == SUBSET {"dump", "app", "done"}
Shape(mtype, ptype, keys) ==
    Msg(mtype, TRUE, ptype,
        keys \cup (IF "dump" \in keys THEN {"path"} ELSE {}),
        IF "dump" \in keys THEN DumpRemoteA ELSE <<>>,
        IF "dump" \in keys THEN OrigPathX ELSE <<>>,
        IF "app" \in keys THEN AppRemoteDir ELSE <<>>)
ShapeMessages ==
    {Shape(t, p, k) : t \in {"send", "error"}, p \in {"", "log"}, k \in KeySets}
    \cup {Msg(t, FALSE, "", {}, <<>>, <<>>, <<>>) : t \in {"send", "error"}}

----------------------------------------------------------------------------
(* PayloadRouter: on_message and the two transfer handlers *)

HandlerResult(fd, st, fin, calls, raised, out) ==
    [fd |-> fd, st |-> st, fin |-> fin, calls |-> calls, raised |-> raised, out |-> out]

\* variant: the mapping entry is written before the transfer is known to have
\* succeeded
HandleDumpPayload_RecordsFailed(m, out) ==
    LET name == BaseName(m.dump) IN
    IF ssh # "active"
    THEN HandlerResult(file_dict, staged, finished, <<"open">>, {name}, "raise")
    ELSE LET fd == IF "path" \in m.keys
                   THEN DictSet(file_dict, name, RelPath(m.path))
                   ELSE file_dict
         IN  IF out = "ok"
             THEN HandlerResult(fd, Put(staged, name, FileEntry(Content("dump", name, TRUE))),
                                finished, <<"open", "get">>, {}, "ok")
             ELSE IF out = "partial"
             THEN HandlerResult(fd, Put(staged, name, FileEntry(Content("dump", name, FALSE))),
                                finished, <<"open", "get">>, {name}, "caught")
             ELSE HandlerResult(fd, staged, finished, <<"open", "get">>, {name}, "caught")

\* lines 208-215 (this definition replaces the one at lines 88-100)
HandleDumpPayload(m, out) ==
    LET name == BaseName(m.dump) IN
    IF ssh # "active"
    THEN \* SCPClient cannot open a channel: raises out of the with statement
         HandlerResult(file_dict, staged, finished, <<"open">>, {name}, "raise")
    ELSE IF out = "ok"
    THEN LET st == Put(staged, name, FileEntry(Content("dump", name, TRUE)))
             fd == IF "path" \in m.keys
                   THEN DictSet(file_dict, name, RelPath(m.path))
                   ELSE file_dict
         IN  HandlerResult(fd, st, finished, <<"open", "get">>, {}, "ok")
    ELSE IF out = "partial"
    THEN HandlerResult(file_dict,
                       Put(staged, name, FileEntry(Content("dump", name, FALSE))),
                       finished, <<"open", "get">>, {name}, "caught")
    ELSE HandlerResult(file_dict, staged, finished, <<"open", "get">>, {name}, "caught")

\* variant: the app entry is written although the transfer was cut short
HandleAppPayload_RecordsPartial(m, out, got) ==
    LET name == BaseName(m.app)
        old == IF name \in DOMAIN staged /\ staged[name].kind = "dir"
               THEN staged[name].files ELSE EmptyFn
        tree == [f \in got |-> DeviceTree[f]] @@ old
        entry == IF RemoteIsDir(m.app)
                 THEN DirEntry(tree)
                 ELSE FileEntry(Content("bundle", name, out = "ok"))
    IN
    IF ssh # "active"
    THEN HandlerResult(file_dict, staged, finished, <<"open">>, {name}, "raise")
    ELSE IF out = "ok"
    THEN HandlerResult(DictSet(file_dict, AppKey, name), Put(staged, name, entry),
                       finished, <<"open", "get_recursive">>, {}, "ok")
    ELSE IF out = "partial"
    THEN HandlerResult(DictSet(file_dict, AppKey, name), Put(staged, name, entry),
                       finished, <<"open", "get_recursive">>, {name}, "caught")
    ELSE HandlerResult(file_dict, staged, finished,
                       <<"open", "get_recursive">>, {name}, "caught")

\* lines 217-223 (this definition replaces the one at lines 102-113)
HandleAppPayload(m, out, got) ==
    LET name == BaseName(m.app)
        old == IF name \in DOMAIN staged /\ staged[name].kind = "dir"
               THEN staged[name].files ELSE EmptyFn
        tree == [f \in got |-> DeviceTree[f]] @@ old
        entry == IF RemoteIsDir(m.app)
                 THEN DirEntry(tree)
                 ELSE FileEntry(Content("bundle", name, out = "ok"))
    IN
    IF ssh # "active"
    THEN HandlerResult(file_dict, staged, finished, <<"open">>, {name}, "raise")
    ELSE IF out = "ok"
    THEN HandlerResult(DictSet(file_dict, AppKey, name), Put(staged, name, entry),
                       finished, <<"open", "get_recursive">>, {}, "ok")
    ELSE IF out = "partial"
    THEN HandlerResult(file_dict, Put(staged, name, entry), finished,
                       <<"open", "get_recursive">>, {name}, "caught")
    ELSE HandlerResult(file_dict, staged, finished,
                       <<"open", "get_recursive">>, {name}, "caught")

\* variant: the done key is looked at before the transfer keys
Classify_DoneFirst(m) ==
    IF m.mtype = "error" THEN "error"
    ELSE IF ~m.hasPayload THEN "nopayload"
    ELSE IF m.ptype = "log" THEN "log"
    ELSE IF "done" \in m.keys THEN "done"
    ELSE IF "dump" \in m.keys THEN "dump"
    ELSE IF "app" \in m.keys THEN "app"
    ELSE "none"

\* lines 176-201: the first rule that matches
Classify(m) ==
    IF m.mtype = "error" THEN "error"
    ELSE IF ~m.hasPayload THEN "nopayload"
    ELSE IF m.ptype = "log" THEN "log"
    ELSE IF "dump" \in m.keys THEN "dump"
    ELSE IF "app" \in m.keys THEN "app"
    ELSE IF "done" \in m.keys THEN "done"
    ELSE "none"

Deliver(m, r) ==
    /\ file_dict' = r.fd
    /\ staged' = r.st
    /\ finished' = r.fin
    /\ failed' = failed \cup r.raised
    /\ last' = [msg |-> m, calls |-> r.calls, out |-> r.out]
    /\ nMsgs' = nMsgs + 1
    /\ late' = (late \/ pc # "wait")
    /\ UNCHANGED <<chanVars, runVars, pc, attempt, nUsb, device, session, detachAttempts, handlerOn,
                   ssh, outputExists, payloadExists, archive, appName, gi,
                   iterLen, genError, genCalls, success, summary, exitCode,
                   timedOut>>

\* lines 175-206, for the first `bound` messages of the stream
OnMessageWithin(m, bound) ==
    /\ handlerOn
    /\ pc # "exit"
    /\ nMsgs < bound
    /\ LET c == Classify(m) IN
       \/ /\ c \in {"error", "nopayload", "log", "none"}
          /\ Deliver(m, HandlerResult(file_dict, staged, finished, <<>>, {}, "return"))
       \/ /\ c = "dump"
          /\ \E out \in Outcomes : Deliver(m, HandleDumpPayload(m, out))
       \/ /\ c = "app"
          /\ \E out \in Outcomes :
               \E got \in SUBSET DeviceFiles :
                  /\ out = "ok" => got = DeviceFiles
                  /\ out = "partial" => got # DeviceFiles
                  /\ out = "fail" => got = {}
                  /\ Deliver(m, HandleAppPayload(m, out, got))
       \/ /\ c = "done"
          /\ Deliver(m, HandlerResult(file_dict, staged, TRUE, <<>>, {}, "set"))

\* lines 175-206
OnMessage(m) == OnMessageWithin(m, MaxMsgs)

\* the transport of self.ssh_client stops being active
TransportLost ==
    /\ ssh = "active"
    /\ ssh' = "dead"
    /\ UNCHANGED <<chanVars, runVars, pc, attempt, nUsb, device, session,
                   detachAttempts, handlerOn, finished, file_dict, staged,
                   outputExists, payloadExists, archive, appName, gi, iterLen,
                   genError, genCalls, success, summary, exitCode, timedOut, nMsgs,
                   last, failed, late>>

\* the device's shell service drops the connection
DropConnection ==
    /\ handlerOn
    /\ pc = "wait"
    /\ TransportLost

----------------------------------------------------------------------------
(* Primary thread: main, get_usb_iphone, dump_app *)

selVars == <<attempt, nUsb, device>>
fsVars == <<staged, outputExists, payloadExists, archive>>
genVars == <<appName, gi, iterLen, genError, genCalls>>
msgVars == <<finished, file_dict, nMsgs, last, failed, late>>
outVars == <<success, summary, exitCode, timedOut>>
sesVars == <<session, detachAttempts, handlerOn, ssh>>

\* a command-line value: absent (None), the empty string, or a non-empty string
CredValues == {"none", "empty", "set"}

Credentials == [password : CredValues, key_file : CredValues]

\* the credential once connect_ssh has taken the configuration
Consumed == [password |-> "used", key_file |-> "used"]

\* Python's `not v` for an optional string
Falsy(v) == v \in {"none", "empty"}

\* variant: only an absent value counts as missing
PostInit_NoneOnly(c) == c.password = "none" /\ c.key_file = "none"

\* lines 38-40: TRUE when SSHConfig.__post_init__ raises ValueError
PostInit(c) == Falsy(c.password) /\ Falsy(c.key_file)

\* lines 403-407: parser.error prints the usage and exits with status 2
ParseArgs ==
    /\ pc = "parse"
    /\ IF Falsy(cred.password) /\ Falsy(cred.key_file)
       THEN pc' = "exit" /\ exitCode' = 2
       ELSE pc' = "config" /\ UNCHANGED exitCode
    /\ UNCHANGED <<chanVars, runVars, selVars, fsVars, genVars, msgVars, sesVars,
                   success, summary, timedOut>>

\* lines 409-415, outside the try block: a ValueError ends the process
MakeConfig ==
    /\ pc = "config"
    /\ IF PostInit(cred)
       THEN pc' = "exit" /\ exitCode' = 1
       ELSE pc' = "connect" /\ UNCHANGED exitCode
    /\ UNCHANGED <<chanVars, runVars, selVars, fsVars, genVars, msgVars, sesVars,
                   success, summary, timedOut>>

\* lines 417-421 and 53-76; a failed connect is caught at lines 428-431
ConnectSsh ==
    /\ pc = "connect"
    /\ \E ok \in BOOLEAN :
         IF ok
         THEN /\ ssh' = "active"
              /\ pc' = "select"
              /\ UNCHANGED exitCode
         ELSE /\ ssh' = "none"
              /\ pc' = "exit"
              /\ exitCode' = 1
    /\ connects' = connects + 1
    /\ cred' = Consumed
    /\ UNCHANGED <<ensureCalls, ensureAttempts, runVars, selVars, fsVars, genVars,
                   msgVars, session, detachAttempts, handlerOn, success, summary,
                   timedOut>>

\* nothing enumerated and nothing answered yet
NoSel == [enums |-> 0, zeros |-> 0, n |-> 0, rejected |-> FALSE,
          kind |-> "none", value |-> 0]

\* lines 78-86: the liveness check, and the reconnection made by the try branch
\* (line 83) and made again by the except branch (line 86) when the first raised
EnsureSshConnection ==
    /\ connects > 0
    /\ pc # "exit"
    /\ ensureCalls < MaxEnsure
    /\ ensureCalls' = ensureCalls + 1
    /\ IF ssh = "active"
       THEN /\ ensureAttempts' = 0
            /\ UNCHANGED <<ssh, connects>>
       ELSE \E first \in BOOLEAN, second \in BOOLEAN :
              IF first
              THEN /\ ssh' = "active"
                   /\ ensureAttempts' = 1
                   /\ connects' = connects + 1
              ELSE /\ ssh' = IF second THEN "active" ELSE "none"
                   /\ ensureAttempts' = 2
                   /\ connects' = connects + 2
    /\ UNCHANGED <<cred, runVars, pc, selVars, fsVars, genVars, msgVars, outVars,
                   session, detachAttempts, handlerOn>>

\* the connection drops between two liveness checks
ChannelDrop ==
    /\ connects > 0
    /\ pc # "exit"
    /\ TransportLost

\* lines 128-144: one pass of the loop up to the prompt
Enumerate ==
    /\ pc = "select"
    /\ attempt < MaxAttempts
    /\ \E n \in 0..MaxUsb, raised \in BOOLEAN :
         /\ sel' = [sel EXCEPT !.enums = @ + 1,
                               !.zeros = IF ~raised /\ n = 0 THEN @ + 1 ELSE @,
                               !.n = IF raised THEN -1 ELSE n]
         /\ \/ /\ raised \/ n = 0
               /\ attempt' = attempt + 1
               /\ nUsb' = 0
               /\ UNCHANGED <<pc, device>>
            \/ /\ ~raised /\ n = 1
               /\ device' = 1
               /\ pc' = "find_app"
               /\ attempt' = 0
               /\ nUsb' = 0
            \/ /\ ~raised /\ n > 1
               /\ nUsb' = n
               /\ pc' = "prompt"
               /\ UNCHANGED <<attempt, device>>
    /\ UNCHANGED <<chanVars, cause, runs, fsVars, genVars, msgVars, outVars, sesVars>>

\* variant: the entered number is taken as a list index
ValidChoice_ZeroBased(choice, n) == 0 <= choice /\ choice < n

\* line 152
ValidChoice(choice, n) == 1 <= choice /\ choice <= n

\* lines 146-158: one answer to the prompt
Prompt ==
    /\ pc = "prompt"
    /\ \E kind \in {"number", "text", "eof"}, choice \in 0..(MaxUsb + 1) :
         \/ /\ kind = "number" /\ ValidChoice(choice, nUsb)
            /\ device' = choice
            /\ pc' = "find_app"
            /\ attempt' = 0
            /\ nUsb' = 0
            /\ sel' = [sel EXCEPT !.kind = kind, !.value = choice]
         \/ /\ \/ kind = "text"
               \/ kind = "number" /\ ~ValidChoice(choice, nUsb)
            /\ sel' = [sel EXCEPT !.rejected = TRUE, !.kind = kind,
                                  !.value = IF kind = "number" THEN choice ELSE 0]
            /\ UNCHANGED <<pc, attempt, nUsb, device>>
         \/ /\ kind = "eof"
            /\ attempt' = attempt + 1
            /\ pc' = "select"
            /\ nUsb' = 0
            /\ sel' = [sel EXCEPT !.kind = kind, !.value = 0]
            /\ UNCHANGED device
    /\ UNCHANGED <<chanVars, cause, runs, fsVars, genVars, msgVars, outVars, sesVars>>

\* lines 160-161: RuntimeError, which leaves dump_app's try block
SelectFail ==
    /\ pc = "select"
    /\ attempt = MaxAttempts
    /\ pc' = "finally"
    /\ attempt' = 0
    /\ nUsb' = 0
    /\ cause' = "nodevice"
    /\ UNCHANGED <<chanVars, sel, runs, device, fsVars, genVars, msgVars, outVars,
                   sesVars>>

\* variant: the workspace is prepared before the application is looked up
FindApp_AfterPrepare ==
    /\ pc = "find_app"
    /\ \E r \in {"running", "spawned", "notfound", "raise", "resume_raise"} :
         /\ session' = IF r \in {"running", "spawned", "resume_raise"}
                       THEN "attached" ELSE "none"
         /\ pc' = IF r \in {"running", "spawned"} THEN "prepare" ELSE "finally"
         /\ cause' = IF r = "notfound" THEN "noapp" ELSE cause
    /\ device' = 0
    /\ sel' = NoSel
    /\ outputExists' = TRUE
    /\ payloadExists' = TRUE
    /\ staged' = EmptyFn
    /\ UNCHANGED <<chanVars, runs, attempt, nUsb, archive, genVars, msgVars, outVars,
                   detachAttempts, handlerOn, ssh>>

\* lines 278-295
FindApp ==
    /\ pc = "find_app"
    /\ \E r \in {"running", "spawned", "notfound", "raise", "resume_raise"} :
         /\ session' = IF r \in {"running", "spawned", "resume_raise"}
                       THEN "attached" ELSE "none"
         /\ pc' = IF r \in {"running", "spawned"} THEN "prepare" ELSE "finally"
         /\ cause' = IF r = "notfound" THEN "noapp" ELSE cause
    /\ device' = 0
    /\ sel' = NoSel
    /\ UNCHANGED <<chanVars, runs, attempt, nUsb, fsVars, genVars, msgVars, outVars,
                   detachAttempts, handlerOn, ssh>>

\* lines 298 and 163-168
CreateDirectories ==
    /\ pc = "prepare"
    /\ \E ok \in BOOLEAN :
         IF ok
         THEN /\ outputExists' = TRUE
              /\ payloadExists' = TRUE
              /\ staged' = EmptyFn
              /\ pc' = "load"
         ELSE /\ pc' = "finally"
              /\ UNCHANGED <<outputExists, payloadExists, staged>>
    /\ UNCHANGED <<chanVars, runVars, selVars, archive, genVars, msgVars, outVars, sesVars>>

\* lines 300-306
LoadScript ==
    /\ pc = "load"
    /\ \E ok \in BOOLEAN :
         IF ok
         THEN handlerOn' = TRUE /\ pc' = "wait"
         ELSE handlerOn' = FALSE /\ pc' = "finally"
    /\ UNCHANGED <<chanVars, runVars, selVars, fsVars, genVars, msgVars, outVars, session,
                   detachAttempts, ssh>>

\* variant: the primary thread goes on without looking at the signal
WaitDone_Unconditional ==
    /\ pc = "wait"
    /\ pc' = "gen_start"
    /\ UNCHANGED <<chanVars, runVars, selVars, fsVars, genVars, msgVars, outVars, sesVars>>

\* lines 309-313: wait returned True
WaitDone ==
    /\ pc = "wait"
    /\ finished
    /\ pc' = "gen_start"
    /\ UNCHANGED <<chanVars, runVars, selVars, fsVars, genVars, msgVars, outVars, sesVars>>

\* variant: the result of wait is ignored
Timeout_Ignored ==
    /\ pc = "wait"
    /\ ~finished
    /\ timedOut' = TRUE
    /\ pc' = "gen_start"
    /\ UNCHANGED <<chanVars, runVars, selVars, fsVars, genVars, msgVars, sesVars, success, summary,
                   exitCode>>

\* lines 309-310: wait returned False after 7200 seconds, TimeoutError
Timeout ==
    /\ pc = "wait"
    /\ ~finished
    /\ timedOut' = TRUE
    /\ pc' = "finally"
    /\ UNCHANGED <<chanVars, runVars, selVars, fsVars, genVars, msgVars, sesVars, success, summary,
                   exitCode>>

----------------------------------------------------------------------------
(* BundleAssembler: generate_ipa *)

IsAbs(value) == Len(value) > 0 /\ value[1] = "/"

\* some directory on the way to rel is an existing regular file
FileAncestor(files, rel) ==
    \E k \in 2..Len(rel) : rel[k] = "/" /\ SubSeq(rel, 1, k - 1) \in DOMAIN files

IsDirIn(files, rel) ==
    \E f \in DOMAIN files : StartsWith(f, rel \o Slash)

\* lines 237-239: can payload_dir/key be moved to payload_dir/app/value
CanMove(st, key, app, value) ==
    /\ key \in DOMAIN st
    /\ \/ IsAbs(value)
       \/ app \notin DOMAIN st
       \/ /\ st[app].kind = "dir"
          /\ ~FileAncestor(st[app].files, StripSlashes(value))

\* variant: a file already present in the bundle is kept and the artifact dropped
Moved_KeepsOriginal(st, key, app, value) ==
    LET rest == Drop(st, {key})
        v == StripSlashes(value)
        files == IF app \in DOMAIN st THEN st[app].files ELSE EmptyFn
        rel == IF v = <<>> THEN key
               ELSE IF IsDirIn(files, v) THEN v \o Slash \o key
               ELSE v
    IN  IF IsAbs(value) THEN rest
        ELSE IF v = <<>> /\ app \notin DOMAIN st THEN Put(rest, app, st[key])
        ELSE IF rel \in DOMAIN files THEN rest
        ELSE Put(rest, app, DirEntry(Put(files, rel, st[key].content)))

\* lines 237-239: the staging directory after the move
Moved(st, key, app, value) ==
    LET rest == Drop(st, {key})
        v == StripSlashes(value)
        files == IF app \in DOMAIN st THEN st[app].files ELSE EmptyFn
        rel == IF v = <<>> THEN key
               ELSE IF IsDirIn(files, v) THEN v \o Slash \o key
               ELSE v
    IN  IF IsAbs(value) THEN rest
        ELSE IF v = <<>> /\ app \notin DOMAIN st THEN Put(rest, app, st[key])
        ELSE Put(rest, app, DirEntry(Put(files, rel, st[key].content)))

\* lines 225-235
GenStart ==
    /\ pc = "gen_start"
    /\ genCalls' = genCalls + 1
    /\ LET name == IF DictHas(file_dict, AppKey) THEN DictGet(file_dict, AppKey)
                   ELSE <<>>
       IN  IF name = <<>>
           THEN /\ genError' = "noapp"
                /\ pc' = "gen_cleanup"
                /\ UNCHANGED <<appName, gi, iterLen>>
           ELSE /\ appName' = name
                /\ gi' = 0
                /\ iterLen' = Len(file_dict)
                /\ pc' = "gen_move"
                /\ UNCHANGED genError
    /\ UNCHANGED <<chanVars, runVars, selVars, fsVars, msgVars, outVars, sesVars>>

\* line 235: the dict changed size while it was being iterated
GenIterChanged ==
    /\ pc = "gen_move"
    /\ Len(file_dict) # iterLen
    /\ genError' = "iter"
    /\ pc' = "gen_cleanup"
    /\ UNCHANGED <<chanVars, runVars, selVars, fsVars, msgVars, outVars, sesVars, appName, gi,
                   iterLen, genCalls>>

\* lines 235-239: one item of the loop
GenMove ==
    /\ pc = "gen_move"
    /\ Len(file_dict) = iterLen
    /\ gi < Len(file_dict)
    /\ gi' = gi + 1
    /\ LET key == file_dict[gi + 1][1]
           value == file_dict[gi + 1][2]
       IN  IF key = AppKey
           THEN UNCHANGED <<staged, genError, pc>>
           ELSE \E envOk \in BOOLEAN :
                  IF envOk /\ CanMove(staged, key, appName, value)
                  THEN /\ staged' = Moved(staged, key, appName, value)
                       /\ UNCHANGED <<genError, pc>>
                  ELSE /\ genError' = "move"
                       /\ pc' = "gen_cleanup"
                       /\ UNCHANGED staged
    /\ UNCHANGED <<chanVars, runVars, selVars, outputExists, payloadExists, archive, msgVars, outVars,
                   sesVars, appName, iterLen, genCalls>>

\* lines 235 and 241-243: the loop ends, the bundle root is verified
GenVerify ==
    /\ pc = "gen_move"
    /\ Len(file_dict) = iterLen
    /\ gi = Len(file_dict)
    /\ IF appName \in DOMAIN staged /\ staged[appName].kind = "dir"
       THEN pc' = "gen_zip" /\ UNCHANGED genError
       ELSE pc' = "gen_cleanup" /\ genError' = "notdir"
    /\ UNCHANGED <<chanVars, runVars, selVars, fsVars, msgVars, outVars, sesVars, appName, gi,
                   iterLen, genCalls>>

\* lines 245-250: the files written before the archive is closed
GenZip ==
    /\ pc = "gen_zip"
    /\ LET files == IF appName \in DOMAIN staged /\ staged[appName].kind = "dir"
                    THEN staged[appName].files ELSE EmptyFn
       IN  \E opened \in BOOLEAN, written \in SUBSET DOMAIN files :
             /\ ~opened => written = {}
             /\ archive' =
                  IF opened
                  THEN [exists |-> TRUE,
                        entries |-> [n \in {ZipName(appName, f) : f \in written} |->
                                       files[CHOOSE f \in written :
                                               ZipName(appName, f) = n]]]
                  ELSE archive
             /\ genError' = IF opened /\ written = DOMAIN files THEN "none" ELSE "zip"
    /\ pc' = "gen_cleanup"
    /\ UNCHANGED <<chanVars, runVars, selVars, staged, outputExists, payloadExists, msgVars, outVars,
                   sesVars, appName, gi, iterLen, genCalls>>

\* line 255: entries the purge skips
Retained(st) == {n \in DOMAIN st : st[n].kind = "dir" /\ EndsWith(n, AppSuffix)}

\* lines 253-263: stuck are the entries whose removal raised
GenCleanup ==
    /\ pc = "gen_cleanup"
    /\ \E stuck \in SUBSET ((DOMAIN staged) \ Retained(staged)) :
         staged' = Drop(staged, (DOMAIN staged) \ (Retained(staged) \cup stuck))
    /\ pc' = "gen_ret"
    /\ UNCHANGED <<chanVars, runVars, selVars, outputExists, payloadExists, archive, genVars, msgVars,
                   outVars, sesVars>>

\* lines 316-319
AfterGenerate ==
    /\ pc = "gen_ret"
    /\ success' = TRUE
    /\ pc' = "finally"
    /\ UNCHANGED <<chanVars, runVars, selVars, fsVars, genVars, msgVars, sesVars, summary, exitCode,
                   timedOut>>

\* variant: the session is detached on the success path only
Finally_SuccessOnly ==
    /\ pc = "finally"
    /\ IF session = "attached" /\ success
       THEN /\ detachAttempts' = detachAttempts + 1
            /\ \E ok \in BOOLEAN :
                 IF ok
                 THEN session' = "detached" /\ handlerOn' = FALSE
                 ELSE UNCHANGED <<session, handlerOn>>
       ELSE UNCHANGED <<session, detachAttempts, handlerOn>>
    /\ summary' = IF success THEN "Success" ELSE "Failed"
    /\ pc' = "ret"
    /\ UNCHANGED <<chanVars, runVars, selVars, fsVars, genVars, msgVars, ssh, success, exitCode,
                   timedOut>>

\* lines 320-346: detach, print the summary, return success; the return in
\* the finally block discards a pending exception
Finally ==
    /\ pc = "finally"
    /\ IF session = "attached"
       THEN /\ detachAttempts' = detachAttempts + 1
            /\ \E ok \in BOOLEAN :
                 IF ok
                 THEN session' = "detached" /\ handlerOn' = FALSE
                 ELSE UNCHANGED <<session, handlerOn>>
       ELSE UNCHANGED <<session, detachAttempts, handlerOn>>
    /\ summary' = IF success THEN "Success" ELSE "Failed"
    /\ pc' = "ret"
    /\ UNCHANGED <<chanVars, runVars, selVars, fsVars, genVars, msgVars, ssh, success, exitCode,
                   timedOut>>

\* lines 423-426
MainExit ==
    /\ pc = "ret"
    /\ exitCode' = IF success THEN 0 ELSE 1
    /\ handlerOn' = FALSE
    /\ pc' = "exit"
    /\ UNCHANGED <<chanVars, runVars, selVars, fsVars, genVars, msgVars, session, detachAttempts, ssh,
                   success, summary, timedOut>>

\* lines 266-271: dump_app is called again on the same IpaBuilder; its locals
\* start afresh, the fields set by __init__ (lines 43-51) are not touched
DumpAgain ==
    /\ pc = "ret"
    /\ runs < MaxRuns
    /\ runs' = runs + 1
    /\ pc' = "select"
    /\ session' = "none"
    /\ detachAttempts' = 0
    /\ success' = FALSE
    /\ summary' = "none"
    /\ timedOut' = FALSE
    /\ cause' = "none"
    /\ sel' = NoSel
    /\ appName' = <<>>
    /\ gi' = 0
    /\ iterLen' = 0
    /\ genError' = "none"
    /\ genCalls' = 0
    /\ last' = [msg |-> NoMsg, calls |-> <<>>, out |-> "none"]
    /\ late' = FALSE
    /\ UNCHANGED <<chanVars, selVars, fsVars, handlerOn, ssh, finished, file_dict,
                   nMsgs, failed, exitCode>>

----------------------------------------------------------------------------
(* Specifications *)

\* a bundle directory retained by an earlier run
Leftover == (BaseName(AppRemoteDir) :> DirEntry(DeviceTree))

Start ==
    /\ cred \in Credentials
    /\ connects = 0
    /\ ensureCalls = 0
    /\ ensureAttempts = 0
    /\ sel = NoSel
    /\ cause = "none"
    /\ runs = 1
    /\ attempt = 0
    /\ nUsb = 0
    /\ device = 0
    /\ session = "none"
    /\ detachAttempts = 0
    /\ handlerOn = FALSE
    /\ ssh = "none"
    /\ finished = FALSE
    /\ file_dict = <<>>
    /\ \E fs \in {<<FALSE, FALSE, EmptyFn>>, <<TRUE, FALSE, EmptyFn>>,
                  <<TRUE, TRUE, Leftover>>} :
         /\ outputExists = fs[1]
         /\ payloadExists = fs[2]
         /\ staged = fs[3]
    /\ archive = NoArchive
    /\ appName = <<>>
    /\ gi = 0
    /\ iterLen = 0
    /\ genError = "none"
    /\ genCalls = 0
    /\ success = FALSE
    /\ summary = "none"
    /\ exitCode = -1
    /\ timedOut = FALSE
    /\ nMsgs = 0
    /\ last = [msg |-> NoMsg, calls |-> <<>>, out |-> "none"]
    /\ failed = {}
    /\ late = FALSE

Init ==
    /\ pc = "parse"
    /\ Start

\* the steps of the primary thread while the mapping keeps its size
Primary ==
    \/ ParseArgs
    \/ MakeConfig
    \/ ConnectSsh
    \/ Enumerate
    \/ Prompt
    \/ SelectFail
    \/ FindApp
    \/ CreateDirectories
    \/ LoadScript
    \/ WaitDone
    \/ Timeout
    \/ GenStart
    \/ GenMove
    \/ GenVerify
    \/ GenZip
    \/ GenCleanup
    \/ AfterGenerate
    \/ Finally
    \/ MainExit

Next ==
    \/ Primary
    \/ GenIterChanged
    \/ DropConnection
    \/ \E m \in Messages : OnMessage(m)

Spec == Init /\ [][Next]_vars

\* the run with a script that keeps the protocol: done is the last message of
\* the stream, so nothing is delivered once a done payload has been handled
\* (and the mapping cannot change size under generate_ipa's iteration)
ProtoNext ==
    \/ Primary
    \/ DropConnection
    \/ ~finished /\ \E m \in StreamMessages : OnMessageWithin(m, MaxStream)

ProtoSpec == Init /\ [][ProtoNext]_vars

\* a caller that calls dump_app more than once on one IpaBuilder; in each run
\* the script sends nothing after its done message
ReuseMessages == {AppMsg(AppRemoteDir), DoneMsg}

ReuseNext ==
    \/ Primary
    \/ DumpAgain
    \/ last.out # "set" /\ \E m \in ReuseMessages : OnMessage(m)

ReuseSpec == Init /\ [][ReuseNext]_vars

\* the remote channel alone: SSHConfig built from the arguments or directly,
\* connect_ssh, then liveness checks interleaved with connection drops
ChannelInit ==
    /\ pc \in {"parse", "config"}
    /\ Start

ChannelNext ==
    \/ ParseArgs
    \/ MakeConfig
    \/ ConnectSsh
    \/ EnsureSshConnection
    \/ ChannelDrop

ChannelSpec == ChannelInit /\ [][ChannelNext]_vars

\* the path computation alone: one dumpFile message handled while dumping
PathInit ==
    /\ pc = "wait"
    /\ cred = Consumed
    /\ connects = 1
    /\ ensureCalls = 0
    /\ ensureAttempts = 0
    /\ sel = NoSel
    /\ cause = "none"
    /\ runs = 1
    /\ attempt = 0
    /\ nUsb = 0
    /\ device = 1
    /\ session = "attached"
    /\ detachAttempts = 0
    /\ handlerOn = TRUE
    /\ ssh = "active"
    /\ finished = FALSE
    /\ file_dict = <<>>
    /\ outputExists = TRUE
    /\ payloadExists = TRUE
    /\ staged = EmptyFn
    /\ archive = NoArchive
    /\ appName = <<>>
    /\ gi = 0
    /\ iterLen = 0
    /\ genError = "none"
    /\ genCalls = 0
    /\ success = FALSE
    /\ summary = "none"
    /\ exitCode = -1
    /\ timedOut = FALSE
    /\ nMsgs = 0
    /\ last = [msg |-> NoMsg, calls |-> <<>>, out |-> "none"]
    /\ failed = {}
    /\ late = FALSE

PathNext == nMsgs = 0 /\ \E m \in PathMessages : OnMessage(m)

PathSpec == PathInit /\ [][PathNext]_vars

\* the handler alone: messages of every shape handled while dumping
RouteNext ==
    \/ nMsgs < MaxRouted /\ \E m \in ShapeMessages : OnMessage(m)
    \/ DropConnection

RouteSpec == PathInit /\ [][RouteNext]_vars

----------------------------------------------------------------------------
(* Properties *)

DumpNames == {BaseName(d) : d \in DumpRemotes}
AppNames == {BaseName(a) : a \in AppRemotes}

\* generate_ipa has been called and has returned
AfterAssembly == genCalls > 0 /\ pc \in {"gen_ret", "finally", "ret", "exit"}

\* this step is an on_message invocation
Handled == nMsgs' = nMsgs + 1

\* C1 as stated: whichever artifact's transfer failed (a dump file or the
\* bundle directory), assembly still produces an archive, provided assembly
\* met no failure of its own (move, directory check, archive write).
C1_AnyTransferFailure ==
    (/\ AfterAssembly
     /\ last.msg = DoneMsg
     /\ ~late
     /\ Cardinality(failed) = 1
     /\ failed \subseteq DumpNames \cup {BaseName(AppRemoteDir)}
     /\ DictHas(file_dict, AppKey) \/ failed \cap AppNames # {}
     /\ genError \notin {"iter", "move", "notdir", "zip"})
    => archive.exists

C1_Step ==
    /\ (Handled /\ last'.out \in {"caught", "raise"})
         => /\ pc' = pc
            /\ handlerOn' = handlerOn
            /\ finished' = finished
            /\ file_dict' = file_dict
            /\ genError' = genError
    /\ (Handled /\ Classify(last'.msg) = "done") => finished'

C1_Assembled ==
    /\ (AfterAssembly /\ ~late /\ genError = "none")
         => /\ archive.exists
            /\ \A n \in failed \ DictKeys(file_dict) :
                 \A e \in DOMAIN archive.entries :
                    ~(archive.entries[e].src = "dump" /\ archive.entries[e].id = n)
            /\ \A i \in 1..Len(file_dict) :
                 LET k == file_dict[i][1]
                     v == file_dict[i][2]
                 IN  (/\ k # AppKey
                      /\ ~IsAbs(v)
                      /\ v # <<>>
                      /\ ~\E j \in (i + 1)..Len(file_dict) :
                            file_dict[j][1] # AppKey /\ file_dict[j][2] = v)
                     => /\ ZipName(appName, v) \in DOMAIN archive.entries
                        /\ archive.entries[ZipName(appName, v)].src = "dump"
                        /\ archive.entries[ZipName(appName, v)].id = k
                        /\ k \notin failed => archive.entries[ZipName(appName, v)].whole
    /\ (AfterAssembly /\ ~late /\ ~DictHas(file_dict, AppKey))
         => genError = "noapp" /\ ~archive.exists

\* C1 amended: a failed transfer changes neither the primary thread's position,
\* the handler registration, the completion signal nor the mapping; a done
\* message sets the signal whatever failed before; when done was the last
\* message and assembly met no failure of its own, the archive holds every
\* mapped artifact at its mapped place and nothing of an artifact whose transfer
\* never succeeded; when the bundle transfer never succeeded the mapping has no
\* app entry, assembly fails and no archive is written.
C1_TransferFailureTolerated == [][C1_Step]_vars /\ []C1_Assembled

C1_Witness ==
    /\ AfterAssembly
    /\ ~late
    /\ finished
    /\ genError = "none"
    /\ archive.exists
    /\ failed \cap DumpNames # {}
    /\ failed \ DictKeys(file_dict) # {}
    /\ last.msg = DoneMsg

\* C2: once assembly has failed, the run ends as Failed with a non-zero exit
\* status.
C2_AssemblyFailureFailsRun ==
    (pc = "exit" /\ genCalls > 0 /\ genError # "none")
    => (~success /\ summary = "Failed" /\ exitCode # 0)

\* C3: in every handler invocation each transfer call comes after a liveness
\* check made in the same invocation.
C3_CheckedBeforeTransfer ==
    \A i \in 1..Len(last.calls) :
       last.calls[i] \in {"get", "get_recursive"}
       => \E j \in 1..(i - 1) : last.calls[j] = "ensure"

\* C4: after the wait has timed out assembly is never invoked, the run is
\* reported as Failed and the exit status is never 0.
C4_TimeoutFails ==
    timedOut
    => /\ genCalls = 0
       /\ pc \in {"finally", "ret", "exit"}
       /\ ~success
       /\ ~archive.exists
       /\ pc \in {"ret", "exit"} => summary = "Failed"
       /\ pc = "exit" => exitCode = 1
       /\ exitCode # 0

C4_Witness ==
    /\ timedOut
    /\ pc = "exit"
    /\ exitCode = 1
    /\ summary = "Failed"
    /\ nMsgs > 0

C5_State ==
    /\ detachAttempts <= 1
    /\ session = "none" => detachAttempts = 0
    /\ detachAttempts > 0 => pc \in {"ret", "exit"}
    /\ (session # "none" /\ pc \in {"ret", "exit"}) => detachAttempts = 1

C5_Step ==
    detachAttempts' # detachAttempts
    => /\ pc = "finally"
       /\ session = "attached"
       /\ success' = success
       /\ summary' = IF success THEN "Success" ELSE "Failed"
       /\ exitCode' = exitCode

\* C5: a run that attached a session attempts detachment exactly once, in the
\* finally block after dumping and assembly have ended, whatever failed before;
\* whether the detachment succeeds or raises, the result of the run is the same.
C5_DetachExactlyOnce == []C5_State /\ [][C5_Step]_vars

C5_Witness ==
    /\ pc = "exit"
    /\ session = "attached"
    /\ detachAttempts = 1
    /\ genCalls > 0
    /\ genError # "none"
    /\ exitCode = 0

\* this step is the return of generate_ipa
GenReturns == pc = "gen_cleanup" /\ pc' = "gen_ret"

\* C6: when generate_ipa returns, done having been the last message and no
\* removal having raised, the staging directory is empty, the bundle-root
\* directory included.
C6_StagingEmptyOnReturn ==
    [][(GenReturns /\ ~late /\ DOMAIN staged' \subseteq Retained(staged))
         => staged' = EmptyFn]_vars

\* C7: when assembly has failed, no archive file exists at the output path.
C7_NoArchiveOnFailure ==
    (AfterAssembly /\ genError # "none") => ~archive.exists

HasMarker(p) ==
    \E i \in 1..(Len(p) - Len(Marker) + 1) : SubSeq(p, i, i + Len(Marker) - 1) = Marker

\* what follows the first occurrence of the marker in a path that has one
AfterFirstMarker(p) ==
    LET i == CHOOSE i \in 1..(Len(p) - Len(Marker) + 1) :
                 /\ SubSeq(p, i, i + Len(Marker) - 1) = Marker
                 /\ \A j \in 1..(i - 1) : SubSeq(p, j, j + Len(Marker) - 1) # Marker
    IN  [k \in 1..(Len(p) - (i + Len(Marker) - 1)) |-> p[i + Len(Marker) - 1 + k]]

\* C8: after a dumpFile message whose original path contains the marker has
\* been handled and its transfer succeeded, the mapping holds for the artifact
\* everything after the first occurrence of the marker.
C8_RelativePathAfterFirstMarker ==
    (/\ Classify(last.msg) = "dump"
     /\ last.out = "ok"
     /\ HasMarker(last.msg.path))
    => /\ DictHas(file_dict, BaseName(last.msg.dump))
       /\ DictGet(file_dict, BaseName(last.msg.dump)) = AfterFirstMarker(last.msg.path)

C8_Witness ==
    /\ Classify(last.msg) = "dump"
    /\ last.out = "ok"
    /\ HasMarker(last.msg.path)
    /\ DictHas(file_dict, BaseName(last.msg.dump))
    /\ HasMarker(DictGet(file_dict, BaseName(last.msg.dump)))

\* C9: a dumpFile message whose original path has no marker records no entry
\* for its artifact (stated for the first message, when the mapping is empty).
C9_NoMarkerRejected ==
    (/\ Classify(last.msg) = "dump"
     /\ nMsgs = 1
     /\ ~HasMarker(last.msg.path))
    => ~DictHas(file_dict, BaseName(last.msg.dump))

\* archive-internal path without its first component
AfterSlash(n) == SliceFrom(n, Find(n, Slash) + 1)

C10_Step ==
    (pc = "gen_zip" /\ pc' = "gen_cleanup" /\ genError' = "none")
    => /\ archive'.exists
       /\ {AfterSlash(AfterSlash(n)) : n \in DOMAIN archive'.entries}
             = DOMAIN staged[appName].files
       /\ Cardinality(DOMAIN archive'.entries)
             = Cardinality(DOMAIN staged[appName].files)
       /\ \A n \in DOMAIN archive'.entries :
             archive'.entries[n] = staged[appName].files[AfterSlash(AfterSlash(n))]

C10_Layout ==
    archive.exists
    => \A n \in DOMAIN archive.entries :
          /\ TopLevel(n) = PayloadName
          /\ TopLevel(AfterSlash(n)) = appName

----------------------------------------------------------------------------
(* C11: a credential with neither a password nor key material *)

LacksBoth(c) ==
    /\ c.password \in {"none", "empty"}
    /\ c.key_file \in {"none", "empty"}

\* C11: with a credential that has neither a password nor key material the
\* configuration is never constructed (the control never gets past its
\* construction, and the process ends with a non-zero status), no connection
\* attempt is made and no connection exists.
C11_NoConnectionWithoutCredential ==
    (cred \in Credentials /\ LacksBoth(cred)) =>
        /\ pc \in {"parse", "config", "exit"}
        /\ pc = "exit" => exitCode \in {1, 2}
        /\ connects = 0
        /\ ssh = "none"

\* SSHConfig was constructed directly from two empty strings and raised
C11_Witness ==
    /\ cred = [password |-> "empty", key_file |-> "empty"]
    /\ pc = "exit"
    /\ exitCode = 1
    /\ connects = 0

----------------------------------------------------------------------------
(* C12: device selection *)

\* an enumeration has just been made
Enumerated == pc = "select" /\ sel'.enums = sel.enums + 1

\* an answer to the prompt has just been read
Answered == pc = "prompt" /\ sel' # sel

C12_State ==
    /\ pc \in {"select", "prompt"} => device = 0 /\ sel.enums <= MaxAttempts
    /\ pc = "select" => attempt = sel.enums
    /\ (pc = "select" /\ sel.zeros = sel.enums) => attempt = sel.zeros

C12_Step ==
    \* it fails after MaxAttempts passes, not earlier and not later
    /\ (pc = "select" /\ attempt < MaxAttempts) => pc' # "finally"
    /\ (pc = "select" /\ attempt = MaxAttempts) =>
           pc' = "finally" /\ cause' = "nodevice" /\ sel' = sel
    \* no candidate: another pass, nothing returned
    /\ (Enumerated /\ sel'.n = 0) =>
           pc' = "select" /\ attempt' = attempt + 1 /\ device' = 0
    \* exactly one candidate: returned without reading an answer
    /\ (Enumerated /\ sel'.n = 1) =>
           /\ pc' = "find_app"
           /\ device' = 1
           /\ sel'.kind = sel.kind /\ sel'.value = sel.value
    \* several candidates: nothing is returned before an answer is read
    /\ (Enumerated /\ sel'.n > 1) =>
           pc' = "prompt" /\ device' = 0 /\ nUsb' = sel'.n
    \* a device is returned from the prompt only as the number entered
    /\ (pc = "prompt" /\ pc' = "find_app") =>
           /\ sel'.kind = "number"
           /\ device' = sel'.value
           /\ 1 <= device' /\ device' <= nUsb
    \* an out-of-range or non-numeric answer selects nothing and asks again
    /\ (Answered /\ \/ sel'.kind = "text"
                    \/ sel'.kind = "number" /\ sel'.value \notin 1..nUsb) =>
           /\ pc' = "prompt"
           /\ device' = 0
           /\ nUsb' = nUsb
           /\ attempt' = attempt

\* C12: get_usb_iphone is decided by the number of USB candidates: with none
\* on every enumeration it makes MaxAttempts passes and then fails, with
\* exactly one it returns that device without asking, with several it returns
\* only the device whose 1-based number was entered, and an out-of-range or
\* non-numeric answer is rejected and asked again without selecting a device.
C12_DeviceSelection == []C12_State /\ [][C12_Step]_vars

\* among two candidates, an answer was rejected and then number 2 was entered
C12_Witness ==
    /\ pc = "find_app"
    /\ sel.n = 2
    /\ sel.rejected
    /\ sel.kind = "number"
    /\ sel.value = 2
    /\ device = 2

----------------------------------------------------------------------------
(* C13: failures before the workspace is touched *)

\* the positions of the primary thread up to the application lookup
BeforePrepare == {"parse", "config", "connect", "select", "prompt", "find_app"}

C13_State ==
    cause \in {"nodevice", "noapp"} =>
        /\ pc \in {"finally", "ret", "exit"}
        /\ ~success
        /\ summary # "Success"
        /\ exitCode \in {-1, 1}
        /\ genCalls = 0
        /\ archive = NoArchive

C13_Step ==
    \* nothing of the workspace changes up to and including the lookup,
    \* and the primary thread never comes back to these positions
    /\ pc \in BeforePrepare => fsVars' = fsVars
    /\ pc \notin BeforePrepare => pc' \notin BeforePrepare
    \* the two failures happen at these positions and end dump_app
    /\ cause' # cause => pc \in {"select", "find_app"} /\ pc' = "finally"
    \* and nothing of the workspace changes after them
    /\ cause # "none" => fsVars' = fsVars /\ cause' = cause

\* C13: when device selection fails or the application is not found the run
\* fails and the workspace is as it was before the run: the output directory
\* is not created and the staging directory is neither deleted nor recreated.
C13_FailsBeforeWorkspace == []C13_State /\ [][C13_Step]_vars

\* the application was not found and an earlier run's staging is still there
C13_Witness ==
    /\ cause = "noapp"
    /\ pc = "exit"
    /\ exitCode = 1
    /\ payloadExists
    /\ staged = Leftover

----------------------------------------------------------------------------
(* C14: the completion signal *)

\* the rules of on_message in the order of the claim: 1 error report, 2 no
\* payload, 3 log record, 4 `dump`, 5 `app`, 6 `done`
RuleMatches(i, m) ==
    \/ i = 1 /\ m.mtype = "error"
    \/ i = 2 /\ ~m.hasPayload
    \/ i = 3 /\ m.ptype = "log"
    \/ i = 4 /\ "dump" \in m.keys
    \/ i = 5 /\ "app" \in m.keys
    \/ i = 6 /\ "done" \in m.keys

\* the number of the first rule that matches, 0 when none does
FirstRule(m) ==
    IF \E i \in 1..6 : RuleMatches(i, m)
    THEN CHOOSE i \in 1..6 :
            RuleMatches(i, m) /\ \A j \in 1..(i - 1) : ~RuleMatches(j, m)
    ELSE 0

Assembling == {"gen_start", "gen_move", "gen_verify", "gen_zip", "gen_cleanup", "gen_ret"}

C14_State == (pc \in Assembling \/ genCalls > 0) => finished

C14_Step ==
    \* Dumping is left for Assembling only with the signal set
    /\ (pc' = "gen_start" /\ pc # "gen_start") => pc = "wait" /\ finished
    \* the signal is set only by the handler, on a done payload
    /\ (finished' /\ ~finished) =>
           Handled /\ FirstRule(last'.msg) = 6 /\ pc' = pc
    /\ finished => finished'
    \* handling done again changes nothing
    /\ (Handled /\ FirstRule(last'.msg) = 6 /\ finished) =>
           UNCHANGED <<pc, selVars, sesVars, fsVars, genVars, outVars, chanVars,
                       runVars, finished, file_dict, failed>>

----------------------------------------------------------------------------
(* C15: classification of a message *)

\* the keys of the mapping that differ between the two states
ChangedKeys ==
    {k \in DictKeys(file_dict) \cup DictKeys(file_dict') :
        \/ DictHas(file_dict, k) # DictHas(file_dict', k)
        \/ DictHas(file_dict, k) /\ DictGet(file_dict, k) # DictGet(file_dict', k)}

C15_Step ==
    Handled =>
        LET m == last'.msg
            r == FirstRule(m)
        IN  \* error report, no payload, log record, or no rule at all
            /\ r \in 0..3 =>
                 /\ last'.calls = <<>>
                 /\ UNCHANGED <<file_dict, staged, finished, failed>>
            \* `dump`: the single-file transfer and nothing else
            /\ r = 4 =>
                 /\ last'.calls = IF ssh = "active" THEN <<"open", "get">>
                                                    ELSE <<"open">>
                 /\ ChangedKeys \subseteq {BaseName(m.dump)}
                 /\ finished' = finished
            \* `app`: the recursive transfer and nothing else
            /\ r = 5 =>
                 /\ last'.calls = IF ssh = "active" THEN <<"open", "get_recursive">>
                                                    ELSE <<"open">>
                 /\ ChangedKeys \subseteq {AppKey}
                 /\ finished' = finished
            \* done: the signal and nothing else
            /\ r = 6 =>
                 /\ last'.calls = <<>>
                 /\ finished'
                 /\ UNCHANGED <<file_dict, staged, failed>>

\* C15: the handler acts on the first rule that matches, in the order error
\* report, no payload, log record, `dump`, `app`, done, and takes only that
\* rule's action: an error report or log record starts no transfer, leaves the
\* mapping alone and does not set the signal, and a payload with `dump` or
\* `app` together with `done` starts the transfer and does not set the signal.
C15_FirstMatchingRule == [][C15_Step]_vars

\* a payload with `dump` and `done` was transferred and the signal is not set
C15_Witness ==
    /\ {"dump", "done"} \subseteq last.msg.keys
    /\ last.msg.mtype = "send"
    /\ last.msg.ptype = ""
    /\ last.calls = <<"open", "get">>
    /\ last.out = "ok"
    /\ DictHas(file_dict, BaseName(last.msg.dump))
    /\ ~finished

----------------------------------------------------------------------------
(* C16: writes to the mapping and assembly *)

C16_State == pc \in Assembling => handlerOn /\ iterLen <= Len(file_dict)

C16_Step ==
    \* every write to the mapping happens in a run that has not started assembly
    /\ (Handled /\ file_dict' # file_dict) => genCalls = 0 /\ pc \notin Assembling
    \* and assembly reads a mapping that no longer changes
    /\ (pc \in Assembling \/ genCalls > 0) => file_dict' = file_dict
    \* the handler is removed only after assembly, when the session is detached
    \* or the process ends
    /\ (handlerOn /\ ~handlerOn') => pc \in {"finally", "ret"}

----------------------------------------------------------------------------
(* C17: the mapping and the signal at the start of a run *)

\* dump_app has just been entered
RunStart == pc = "select" /\ sel.enums = 0

\* C17: at the start of every dump_app call the mapping is empty and the
\* signal is unset: at the first call, and at a call on the same IpaBuilder
\* that follows a run which wrote its archive.
C17_FreshAtRunStart ==
    (RunStart /\ (runs > 1 => archive # NoArchive)) =>
        (file_dict = <<>> /\ ~finished)

----------------------------------------------------------------------------
(* C19: arrival order of the transfer messages *)

\* the keys of the mapping that name dumped artifacts
ArtifactKeys == DictKeys(file_dict) \ {AppKey}

\* the loop of generate_ipa has moved every artifact and the bundle root was
\* found, in a run where every transfer succeeded and a bundle was transferred
AllMoved ==
    /\ pc \in {"gen_zip", "gen_cleanup"}
    /\ genError \in {"none", "zip"}
    /\ failed = {}
    /\ DictHas(file_dict, AppKey)
    /\ appName \in DOMAIN staged
    /\ staged[appName].kind = "dir"

\* every mapped artifact is in the bundle at its recorded path, in place of
\* the file of the device, and is gone from the staging root
C19_Placed ==
    \A k \in ArtifactKeys :
        LET v == DictGet(file_dict, k) IN
        /\ v \in DOMAIN staged[appName].files
        /\ staged[appName].files[v] = Content("dump", k, TRUE)
        /\ k \notin DOMAIN staged

\* no two artifacts are recorded for the same place in the bundle
DistinctPlaces ==
    \A k1 \in ArtifactKeys, k2 \in ArtifactKeys :
        k1 # k2 => DictGet(file_dict, k1) # DictGet(file_dict, k2)

\* C19 as stated: for distinct artifact filenames, whatever the arrival
\* order, every mapped artifact ends at bundleRoot/<relativePath>.
C19_AnyDistinctFilenames == AllMoved => C19_Placed

\* a successful transfer writes its own key, with a value computed from the
\* message alone, and no other entry: the mapping after a set of successful
\* transfers with distinct filenames does not depend on their order
C19_Step ==
    (Handled /\ last'.out = "ok") =>
        LET m == last'.msg
            k == IF FirstRule(m) = 4 THEN BaseName(m.dump) ELSE AppKey
        IN  /\ FirstRule(m) \in {4, 5}
            /\ DictKeys(file_dict') = DictKeys(file_dict) \cup {k}
            /\ \A j \in DictKeys(file_dict) \ {k} :
                   DictGet(file_dict', j) = DictGet(file_dict, j)
            /\ FirstRule(m) = 4 /\ HasMarker(m.path) =>
                   DictGet(file_dict', k) = AfterFirstMarker(m.path)
            /\ FirstRule(m) = 5 => DictGet(file_dict', k) = BaseName(m.app)

\* C19 amended: for artifacts with distinct filenames and distinct places in
\* the bundle the mapping does not depend on the arrival order, and after the
\* moves every mapped artifact is at bundleRoot/<relativePath>, in place of
\* the original, and no longer at the staging root.
C19_OrderIndependent ==
    /\ [][C19_Step]_vars
    /\ []((AllMoved /\ DistinctPlaces) => C19_Placed)

\* two artifacts for two places of the bundle have been moved; the one that
\* arrived first is recorded second in the other arrival order
C19_Witness ==
    /\ AllMoved
    /\ DistinctPlaces
    /\ Cardinality(ArtifactKeys) = 2
    /\ file_dict[1][1] # AppKey
    /\ genError = "none"
    /\ pc = "gen_cleanup"

----------------------------------------------------------------------------
(* C18: reconnection attempts of one liveness check *)

\* C18: one call of the liveness check makes at most one reconnection attempt.
C18_AtMostOneReconnect == ensureAttempts <= 1

----------------------------------------------------------------------------
(* C20: entries of the mapping and successful transfers *)

C20_State == DictKeys(file_dict) \subseteq DumpNames \cup {AppKey}

C20_Step ==
    \* only the handler writes the mapping
    /\ file_dict' # file_dict => Handled
    \* a transfer that failed adds and changes nothing
    /\ (Handled /\ last'.out # "ok") => file_dict' = file_dict
    \* an entry is added or changed only by the successful transfer of the
    \* artifact it names, which is then in the staging directory
    /\ \A k \in ChangedKeys :
          /\ last'.out = "ok"
          /\ k = AppKey =>
                /\ last'.calls = <<"open", "get_recursive">>
                /\ DictGet(file_dict', k) = BaseName(last'.msg.app)
                /\ BaseName(last'.msg.app) \in DOMAIN staged'
          /\ k # AppKey =>
                /\ last'.calls = <<"open", "get">>
                /\ k = BaseName(last'.msg.dump)
                /\ k \in DOMAIN staged'
                /\ staged'[k] = FileEntry(Content("dump", k, TRUE))

====
